---- MODULE Spec2Model ----
(***************************************************************************)
(* Model of the poster generator (src/main.py): the response parser of     *)
(* generate_text, the colour helpers, the template fill, html_to_png and   *)
(* the "Generate Poster" handler.                                          *)
(*                                                                         *)
(* Text is a sequence of lexemes.  The characters the code looks at one by *)
(* one (braces, brackets, quote, colon, comma, white space, the fence of   *)
(* three backticks, markup characters) are lexemes of their own; any other *)
(* lexeme is a run of characters none of which the code distinguishes.     *)
(***************************************************************************)
EXTENDS Integers, Sequences, FiniteSets, TLC

VARIABLES
  pc,          \* position of the script / of generate_text / of html_to_png
  result,      \* generate_text: the response of generate_content
  uploaded,    \* uploaded_img is not None
  agent,       \* [name, role, phone]: the st.text_input values
  raw,         \* generate_text: raw
  json_text,   \* generate_text: json_text (NoText for None)
  parsed,      \* generate_text: parsed (the dict being normalised)
  exc,         \* the exception in flight or last raised ("none" when none)
  text_spec,   \* handler: the PosterCopy returned by generate_text
  colors,      \* handler: the resolved colours
  html,        \* handler: the filled template
  pw,          \* html_to_png: [driver, browser, page] acquired or not
  poster,      \* handler: poster_bytes were returned
  ui,          \* what the page shows: errors and image
  presses,     \* number of Generate actions so far
  genCalls,    \* calls of client.models.generate_content in this action
  renderCalls  \* calls of html_to_png in this action

vars == <<pc, result, uploaded, agent, raw, json_text, parsed, exc, text_spec, colors,
          html, pw, poster, ui, presses, genCalls, renderCalls>>

----------------------------------------------------------------------------
(* Bounds of the model.                                                    *)

MaxPresses == 2      \* Generate actions in one session
MaxLen == 3          \* length of the free-form response texts
MaxBullets == 5      \* longest bullet list the service sends

(* Program constants.                                                      *)
BulletLimit == 3     \* bullets[:3]

----------------------------------------------------------------------------
(* Lexemes.                                                                *)

QUOTE == "\""
NL == "\n"
SP == " "
FENCE == "<fence>"   \* three backticks
WS == {SP, NL}
NumLex == {"0", "5"}

(* JSON values as Python objects.  A dict keeps its insertion order.       *)
None == [t |-> "none"]
Str(s) == [t |-> "str", s |-> s]
Num(n) == [t |-> "num", n |-> n]
Bool(b) == [t |-> "bool", b |-> b]
List(l) == [t |-> "list", l |-> l]
Dict(o) == [t |-> "dict", o |-> o]

S(x) == Str(<<x>>)
Item(k, v) == [k |-> <<k>>, v |-> v]

HasKey(o, k) == \E i \in 1..Len(o) : o[i].k = k

\* dict.get(key, default)
Get(d, key, default) ==
  IF HasKey(d.o, <<key>>)
    THEN d.o[CHOOSE i \in 1..Len(d.o) : d.o[i].k = <<key>>].v
    ELSE default

\* d[key] = v
Put(d, key, v) ==
  IF HasKey(d.o, <<key>>)
    THEN Dict([i \in 1..Len(d.o) |->
                 IF d.o[i].k = <<key>> THEN [k |-> <<key>>, v |-> v] ELSE d.o[i]])
    ELSE Dict(Append(d.o, [k |-> <<key>>, v |-> v]))

\* Python truth value, as used by "x or default"
Truthy(v) ==
  CASE v.t = "none" -> FALSE
    [] v.t = "str" -> v.s # <<>>
    [] v.t = "num" -> v.n # 0
    [] v.t = "bool" -> v.b
    [] v.t = "list" -> v.l # <<>>
    [] v.t = "dict" -> v.o # <<>>

----------------------------------------------------------------------------
(* str.strip(), "\n".join(chunks)                                          *)

RECURSIVE LStrip(_)
LStrip(t) == IF t # <<>> /\ Head(t) \in WS THEN LStrip(Tail(t)) ELSE t

RECURSIVE RStrip(_)
RStrip(t) ==
  IF t # <<>> /\ t[Len(t)] \in WS THEN RStrip(SubSeq(t, 1, Len(t) - 1)) ELSE t

Strip(t) == RStrip(LStrip(t))

RECURSIVE Join(_)
Join(chunks) ==
  IF chunks = <<>> THEN <<>>
  ELSE IF Len(chunks) = 1 THEN chunks[1]
  ELSE chunks[1] \o <<NL>> \o Join(Tail(chunks))

(* A response of the service: the text of each part of its candidates      *)
(* (NoText for a part without text) and result.text.                       *)
NoText == <<"<None>">>
Response(parts, text) == [parts |-> parts, text |-> text]

\* "if t: chunks.append(t)" over the parts, then the result.text fallback
Chunks(res) ==
  LET fromParts == SelectSeq(res.parts, LAMBDA t : t # NoText /\ t # <<>>)
  IN IF fromParts = <<>> /\ res.text # NoText /\ res.text # <<>>
       THEN <<res.text>>
       ELSE fromParts

\* raw = "\n".join(chunks).strip() if chunks else ""
RawOf(res) ==
  LET chunks == Chunks(res)
  IN IF chunks # <<>> THEN Strip(Join(chunks)) ELSE <<>>

----------------------------------------------------------------------------
(* re.search(r"<fence>(?:json)?\s*(\{.*?\})\s*<fence>", raw, re.S | re.I)  *)

RECURSIVE SkipWs(_, _)
SkipWs(t, p) == IF p <= Len(t) /\ t[p] \in WS THEN SkipWs(t, p + 1) ELSE p

At(t, p) == IF p >= 1 /\ p <= Len(t) THEN t[p] ELSE "<eof>"

\* where the group starts when the match starts at i (0: no match at i)
FenceOpen(t, i) ==
  IF At(t, i) # FENCE THEN 0
  ELSE LET a == IF At(t, i + 1) \in {"json", "JSON"} THEN i + 2 ELSE i + 1
           b == SkipWs(t, a)
       IN IF At(t, b) = "{" THEN b ELSE 0

\* the ends of the group for a group starting at b: a "}" followed by \s*<fence>
FenceEnds(t, b) ==
  {e \in (b + 1)..Len(t) : t[e] = "}" /\ At(t, SkipWs(t, e + 1)) = FENCE}

Min(s) == CHOOSE x \in s : \A y \in s : x <= y

\* m.group(1) of the leftmost match, the lazy .*? taking the nearest end
FencedJson(t) ==
  LET starts == {i \in 1..Len(t) : FenceOpen(t, i) # 0
                                     /\ FenceEnds(t, FenceOpen(t, i)) # {}}
  IN IF starts = {} THEN NoText
     ELSE LET b == FenceOpen(t, Min(starts))
          IN SubSeq(t, b, Min(FenceEnds(t, b)))

(* The scan from the first "{" counting braces (lines 214-224).            *)

\* depth after the loop has read t[start..i]: one up for each "{", one down
\* for each "}"
Depth(t, start, i) ==
  Cardinality({j \in start..i : t[j] = "{"})
    - Cardinality({j \in start..i : t[j] = "}"})

\* a scan that takes the rest of the text when no brace balances
BalancedJson_ToEnd(t) ==
  LET opens == {i \in 1..Len(t) : t[i] = "{"}
  IN IF opens = {} THEN NoText
     ELSE LET start == Min(opens)
              closes == {i \in start..Len(t) : t[i] = "}" /\ Depth(t, start, i) = 0}
          IN IF closes = {} THEN SubSeq(t, start, Len(t))
             ELSE SubSeq(t, start, Min(closes))

BalancedJson(t) ==
  LET opens == {i \in 1..Len(t) : t[i] = "{"}
  IN IF opens = {} THEN NoText
     ELSE LET start == Min(opens)
              closes == {i \in start..Len(t) : t[i] = "}" /\ Depth(t, start, i) = 0}
          IN IF closes = {} THEN NoText ELSE SubSeq(t, start, Min(closes))

\* lines 209-224: the fenced block if there is one, else the brace scan
LocateJson(t) ==
  IF FencedJson(t) # NoText THEN FencedJson(t) ELSE BalancedJson(t)

----------------------------------------------------------------------------
(* json.loads: a recursive-descent parse of the lexemes.  A parse result   *)
(* is [ok, v, p]: the value and the position after it.                     *)

Fail == [ok |-> FALSE, v |-> None, p |-> 0]
Ok(v, p) == [ok |-> TRUE, v |-> v, p |-> p]

NumOf(lex) == IF lex = "0" THEN 0 ELSE 5

\* a string starts at the quote t[p]; the strict decoder refuses a raw
\* control character (a newline) inside it
ParseString(t, p) ==
  LET closes == {q \in (p + 1)..Len(t) : t[q] = QUOTE}
  IN IF closes = {} THEN Fail
     ELSE LET q == Min(closes)
          IN IF \E i \in (p + 1)..(q - 1) : t[i] = NL THEN Fail
             ELSE Ok(Str(SubSeq(t, p + 1, q - 1)), q + 1)

\* a later duplicate of a key replaces the value and keeps the place
AddItem(o, k, v) ==
  IF HasKey(o, k)
    THEN [i \in 1..Len(o) |-> IF o[i].k = k THEN [k |-> k, v |-> v] ELSE o[i]]
    ELSE Append(o, [k |-> k, v |-> v])

RECURSIVE ParseValue(_, _)
RECURSIVE ParseMember(_, _)
RECURSIVE ParseMembers(_, _, _)
RECURSIVE ParseElements(_, _, _)

\* one member "key": value, the key starting at p: [ok, k, v, p]
ParseMember(t, p) ==
  LET key == IF At(t, p) = QUOTE THEN ParseString(t, p) ELSE Fail
      c == SkipWs(t, key.p)
      val == IF key.ok /\ At(t, c) = ":" THEN ParseValue(t, SkipWs(t, c + 1)) ELSE Fail
  IN [ok |-> val.ok, k |-> key.v, v |-> val.v, p |-> val.p]

\* p is where a key must start; acc are the items read so far
ParseMembers(t, p, acc) ==
  LET m == ParseMember(t, p)
      e == SkipWs(t, m.p)
      items == AddItem(acc, m.k.s, m.v)
  IN IF ~m.ok THEN Fail
     ELSE IF At(t, e) = "}" THEN Ok(Dict(items), e + 1)
     ELSE IF At(t, e) = "," THEN ParseMembers(t, SkipWs(t, e + 1), items)
     ELSE Fail

\* p is where an element must start; acc are the elements read so far
ParseElements(t, p, acc) ==
  LET val == ParseValue(t, p)
  IN IF ~val.ok THEN Fail
     ELSE LET e == SkipWs(t, val.p)
              items == Append(acc, val.v)
          IN IF At(t, e) = "]" THEN Ok(List(items), e + 1)
             ELSE IF At(t, e) = "," THEN ParseElements(t, SkipWs(t, e + 1), items)
             ELSE Fail

ParseValue(t, p) ==
  LET c == At(t, p)
  IN CASE c = QUOTE -> ParseString(t, p)
       [] c = "{" ->
            LET q == SkipWs(t, p + 1)
            IN IF At(t, q) = "}" THEN Ok(Dict(<<>>), q + 1)
               ELSE ParseMembers(t, q, <<>>)
       [] c = "[" ->
            LET q == SkipWs(t, p + 1)
            IN IF At(t, q) = "]" THEN Ok(List(<<>>), q + 1)
               ELSE ParseElements(t, q, <<>>)
       [] c \in NumLex -> Ok(Num(NumOf(c)), p + 1)
       [] c = "null" -> Ok(None, p + 1)
       [] c = "true" -> Ok(Bool(TRUE), p + 1)
       [] c = "false" -> Ok(Bool(FALSE), p + 1)
       [] OTHER -> Fail

\* json.loads(text): one value, white space around it, nothing after it
Loads(t) ==
  LET r == ParseValue(t, SkipWs(t, 1))
  IN IF r.ok /\ SkipWs(t, r.p) = Len(t) + 1 THEN r ELSE Fail

----------------------------------------------------------------------------
(* str(x) and repr(x)                                                      *)

RECURSIVE Repr(_)
RECURSIVE ReprItems(_)
RECURSIVE ReprElems(_)

ReprItems(o) ==
  IF o = <<>> THEN <<>>
  ELSE <<"'">> \o o[1].k \o <<"'", ":", SP>> \o Repr(o[1].v)
         \o (IF Len(o) > 1 THEN <<",", SP>> \o ReprItems(Tail(o)) ELSE <<>>)

ReprElems(l) ==
  IF l = <<>> THEN <<>>
  ELSE Repr(l[1]) \o (IF Len(l) > 1 THEN <<",", SP>> \o ReprElems(Tail(l)) ELSE <<>>)

Repr(v) ==
  CASE v.t = "none" -> <<"None">>
    [] v.t = "str" -> <<"'">> \o v.s \o <<"'">>
    [] v.t = "num" -> IF v.n = 0 THEN <<"0">> ELSE <<"5">>
    [] v.t = "bool" -> IF v.b THEN <<"True">> ELSE <<"False">>
    [] v.t = "list" -> <<"[">> \o ReprElems(v.l) \o <<"]">>
    [] v.t = "dict" -> <<"{">> \o ReprItems(v.o) \o <<"}">>

PyStr(v) == IF v.t = "str" THEN v.s ELSE Repr(v)

----------------------------------------------------------------------------
(* generate_text, lines 236-254: normalize fields                          *)

Themes == {"blue_orange", "green_gold", "red_yellow", "yellow_blue"}
DefaultTheme == "blue_orange"

\* lines 237-240
NormTheme(d) ==
  LET theme == Get(d, "color_theme", S(DefaultTheme))
  IN Put(d, "color_theme",
         IF theme \in {S(th) : th \in Themes} THEN theme ELSE S(DefaultTheme))

\* bullets[-3:]
Clamp_Last(l) ==
  SubSeq(l, IF Len(l) < BulletLimit THEN 1 ELSE Len(l) - BulletLimit + 1, Len(l))

\* bullets[:3]
Clamp(l) == SubSeq(l, 1, IF Len(l) < BulletLimit THEN Len(l) ELSE BulletLimit)

\* lines 242-245
NormBullets(d) ==
  LET got == Get(d, "bullet_points_ta", None)
      bullets == IF Truthy(got) THEN got ELSE List(<<>>)
      asList == IF bullets.t = "list" THEN bullets.l ELSE <<Str(PyStr(bullets))>>
  IN Put(d, "bullet_points_ta", List(Clamp(asList)))

\* line 247: parsed.get("text_colors") or {}
TextColorsOf(d) ==
  LET got == Get(d, "text_colors", None)
  IN IF Truthy(got) THEN got ELSE Dict(<<>>)

\* lines 248-252, for a text_colors that has a get method
NormTextColors(d) ==
  LET tc == TextColorsOf(d)
  IN Put(d, "text_colors",
         Dict(<<[k |-> <<"headline">>, v |-> Get(tc, "headline", S("dark_blue"))],
                [k |-> <<"body">>, v |-> Get(tc, "body", S("black"))],
                [k |-> <<"cta">>, v |-> Get(tc, "cta", S("red"))]>>))

----------------------------------------------------------------------------
(* Colour helpers, lines 45-72                                             *)

ColorTable ==
  {"dark_blue", "navy", "blue", "sky_blue", "dark_green", "green", "red",
   "maroon", "orange", "gold", "black", "dark_gray", "white"}

Hex(name) ==
  CASE name = "dark_blue" -> "#0f172a" [] name = "navy" -> "#0f172a"
    [] name = "blue" -> "#1d4ed8" [] name = "sky_blue" -> "#0ea5e9"
    [] name = "dark_green" -> "#166534" [] name = "green" -> "#16a34a"
    [] name = "red" -> "#b91c1c" [] name = "maroon" -> "#7f1d1d"
    [] name = "orange" -> "#ea580c" [] name = "gold" -> "#facc15"
    [] name = "black" -> "#111827" [] name = "dark_gray" -> "#374151"
    [] name = "white" -> "#f9fafb"

\* a list or a dict is no dict key: table.get(name, ...) raises TypeError
Hashable(v) == v.t \notin {"list", "dict"}

\* color_from_name(name, fallback), for a hashable name
color_from_name(name, fallback) ==
  IF name.t = "str" /\ Len(name.s) = 1 /\ name.s[1] \in ColorTable
    THEN Hex(name.s[1])
    ELSE fallback

\* theme_colors(theme): (top, bottom, footer)
theme_colors(theme) ==
  CASE theme = S("green_gold") -> <<"#e8f7eb", "#fef6d8", "#14532d">>
    [] theme = S("red_yellow") -> <<"#fee2e2", "#fef9c3", "#7f1d1d">>
    [] theme = S("yellow_blue") -> <<"#fef9c3", "#dbeafe", "#1e3a8a">>
    [] OTHER -> <<"#e0f2fe", "#ffedd5", "#0f172a">>

----------------------------------------------------------------------------
(* POSTER_HTML.render, lines 261-415 and 492-513.  A tag of the template   *)
(* is one lexeme; a value is inserted lexeme by lexeme.                    *)

Markup == {"<", ">", "&", QUOTE, "'"}

EscapeLex(c) ==
  CASE c = "<" -> "&lt;" [] c = ">" -> "&gt;" [] c = "&" -> "&amp;"
    [] c = QUOTE -> "&#34;" [] c = "'" -> "&#39;" [] OTHER -> c

\* markupsafe.escape
Escape(t) == [i \in 1..Len(t) |-> EscapeLex(t[i])]

\* Template(...) is built without autoescape (line 261): jinja2's default
AutoEscape == FALSE

\* {{ value }}
Emit(v) == IF AutoEscape THEN Escape(PyStr(v)) ELSE PyStr(v)

RECURSIVE EmitBullets(_)
EmitBullets(l) ==
  IF l = <<>> THEN <<>>
  ELSE <<"<div class=bullet-item>", "*", SP>> \o Emit(l[1]) \o <<"</div>">>
         \o EmitBullets(Tail(l))

\* the body of the document, lines 389-411
RenderHtml(headline, subheadline, body_paragraph, bullet_points, cta_line, ag) ==
  <<"<div class=headline>">> \o Emit(headline) \o <<"</div>">>
  \o (IF Truthy(subheadline)
        THEN <<"<div class=subheadline>">> \o Emit(subheadline) \o <<"</div>">>
        ELSE <<>>)
  \o <<"<div class=body>">> \o Emit(body_paragraph) \o <<"</div>">>
  \o <<"<div class=bullets>">> \o EmitBullets(bullet_points.l) \o <<"</div>">>
  \o <<"<div class=cta>">> \o Emit(cta_line) \o <<"</div>">>
  \o <<"<div class=footer-name>">> \o Emit(Str(ag.name)) \o <<"</div>">>
  \o <<"<div class=footer-role>">> \o Emit(Str(ag.role)) \o <<"</div>">>
  \o <<"<div class=footer-phone>">> \o Emit(Str(ag.phone)) \o <<"</div>">>

----------------------------------------------------------------------------
(* What the service may answer.  Dump is the JSON text of a value as the   *)
(* service writes it (the format the prompt asks for, lines 162-174).      *)

RECURSIVE Dump(_)
RECURSIVE DumpItems(_)
RECURSIVE DumpElems(_)

DumpItems(o) ==
  IF o = <<>> THEN <<>>
  ELSE <<QUOTE>> \o o[1].k \o <<QUOTE, ":", SP>> \o Dump(o[1].v)
         \o (IF Len(o) > 1 THEN <<",", NL>> \o DumpItems(Tail(o)) ELSE <<>>)

DumpElems(l) ==
  IF l = <<>> THEN <<>>
  ELSE Dump(l[1]) \o (IF Len(l) > 1 THEN <<",", SP>> \o DumpElems(Tail(l)) ELSE <<>>)

Dump(v) ==
  CASE v.t = "none" -> <<"null">>
    [] v.t = "str" -> <<QUOTE>> \o v.s \o <<QUOTE>>
    [] v.t = "num" -> IF v.n = 0 THEN <<"0">> ELSE <<"5">>
    [] v.t = "bool" -> IF v.b THEN <<"true">> ELSE <<"false">>
    [] v.t = "list" -> <<"[">> \o DumpElems(v.l) \o <<"]">>
    [] v.t = "dict" -> <<"{">> \o DumpItems(v.o) \o <<"}">>

Fenced(t) == <<FENCE, "json", NL>> \o t \o <<NL, FENCE>>

BulletNames == <<"b1", "b2", "b3", "b4", "b5", "b6", "b7", "b8">>
Bullets(n) == List([i \in 1..n |-> S(BulletNames[i])])

Opt(key, vals) == {<<>>} \cup {<<Item(key, v)>> : v \in vals}

HeadlineVals ==
  {S("X"), Str(<<"a", "}">>), Str(<<"{", "a">>), Str(<<"{", "a", "}">>),
   Str(<<"<", "b", ">">>)}
ThemeVals == {S("green_gold"), S("purple_pink"), Num(5)}
BulletVals ==
  {None, S("x"), Num(5), Dict(<<Item("a", S("b"))>>)}
    \cup {Bullets(n) : n \in 0..MaxBullets}
TextColorVals ==
  {None, S("red"), List(<<S("red")>>), Dict(<<>>),
   Dict(<<Item("headline", S("navy"))>>),
   Dict(<<Item("headline", None)>>),
   Dict(<<Item("headline", List(<<S("navy")>>))>>),
   Dict(<<Item("headline", S("maroon")), Item("body", S("dark_gray")),
          Item("cta", S("green"))>>)}

Required == <<Item("body_paragraph_ta", S("Y")), Item("cta_line_ta", S("Z"))>>

\* the objects the parser is run on
Objects ==
  {Dict(h \o Required \o b \o th \o tc) :
     h \in Opt("headline_ta", HeadlineVals), b \in Opt("bullet_points_ta", BulletVals),
     th \in Opt("color_theme", ThemeVals), tc \in Opt("text_colors", TextColorVals)}

Alphabet == {"{", "}", "invalid", "no braces here", FENCE, SP}

RECURSIVE TextsOfLen(_)
TextsOfLen(n) ==
  IF n = 0 THEN {<<>>}
  ELSE {Append(t, c) : t \in TextsOfLen(n - 1), c \in Alphabet}

ShortTexts == UNION {TextsOfLen(n) : n \in 0..MaxLen}

NoResponse == Response(<<>>, NoText)

\* the responses the parser is run on
Responses ==
  {Response(<<t>>, NoText) : t \in ShortTexts}
    \cup {Response(<<Dump(o)>>, NoText) : o \in Objects}
    \cup {Response(<<Fenced(Dump(o))>>, NoText) : o \in Objects}
    \cup {Response(<<>>, t) : t \in TextsOfLen(1) \cup {NoText}}
    \cup {Response(<<a, b>>, NoText) : a, b \in TextsOfLen(1) \cup {<<>>, NoText}}

\* the answers of the service in the sessions of the handler
Good(h, n) ==
  Dict(<<Item("headline_ta", h), Item("subheadline_ta", Str(<<>>)),
         Item("body_paragraph_ta", S("Y")), Item("bullet_points_ta", Bullets(n)),
         Item("cta_line_ta", S("Z")), Item("color_theme", S("green_gold")),
         Item("text_colors",
              Dict(<<Item("headline", S("dark_green")), Item("body", S("black")),
                     Item("cta", S("green"))>>))>>)

ServiceObjects ==
  {Good(S("X"), 3), Good(S("X"), 5), Good(Str(<<"<", "b", ">">>), 1), Good(Num(5), 0),
   Dict(<<>>),
   Dict(<<Item("headline_ta", S("X")), Item("body_paragraph_ta", S("Y"))>>),
   Dict(<<Item("headline_ta", S("X")), Item("body_paragraph_ta", S("Y")),
          Item("cta_line_ta", S("Z")),
          Item("text_colors", Dict(<<Item("cta", List(<<S("red")>>))>>))>>),
   Dict(<<Item("headline_ta", S("X")), Item("text_colors", S("red"))>>)}

ServiceResponses ==
  {Response(<<Dump(o)>>, NoText) : o \in ServiceObjects}
    \cup {Response(<<Fenced(Dump(o))>>, NoText) : o \in ServiceObjects}
    \cup {NoResponse, Response(<<<<"no braces here">>>>, NoText),
          Response(<<<<"{", "invalid">>>>, NoText),
          Response(<<<<"{", "invalid", "}">>>>, NoText)}

Agents ==
  {[name |-> <<"Selvaraj D">>, role |-> <<"agent">>, phone |-> <<"9842761070">>],
   [name |-> <<"<", "i", ">">>, role |-> <<"agent">>, phone |-> <<"9842761070">>],
   [name |-> <<"A", "&", "B">>, role |-> <<QUOTE, "agent", QUOTE>>, phone |-> <<"<">>]}

NoAgent == [name |-> <<>>, role |-> <<>>, phone |-> <<>>]
NoColors == <<>>
NoUi == [error |-> "none", image |-> FALSE, download |-> FALSE]
NoPw == [driver |-> FALSE, browser |-> FALSE, page |-> FALSE]

----------------------------------------------------------------------------
(* generate_text, lines 112-254                                            *)

\* lines 177-180: the one call of the service; it answers or raises
G_Call ==
  /\ pc = "g_call"
  /\ genCalls' = genCalls + 1
  /\ \/ \E r \in ServiceResponses :
          /\ result' = r
          /\ pc' = "g_extract"
          /\ exc' = exc
     \/ /\ exc' = "APIError"
        /\ pc' = "g_raise"
        /\ result' = result
  /\ UNCHANGED <<uploaded, agent, raw, json_text, parsed, text_spec, colors, html,
                 pw, poster, ui, presses, renderCalls>>

\* lines 183-206: the text of the response, or EmptyResponse
G_Extract ==
  /\ pc = "g_extract"
  /\ raw' = RawOf(result)
  /\ IF raw' = <<>>
       THEN pc' = "g_raise" /\ exc' = "EmptyResponse"
       ELSE pc' = "g_locate" /\ exc' = exc
  /\ UNCHANGED <<result, uploaded, agent, json_text, parsed, text_spec, colors, html,
                 pw, poster, ui, presses, genCalls, renderCalls>>

\* lines 209-227: the candidate JSON text, or NoJsonFound
G_Locate ==
  /\ pc = "g_locate"
  /\ json_text' = LocateJson(raw)
  /\ IF json_text' = NoText \/ json_text' = <<>>
       THEN pc' = "g_raise" /\ exc' = "NoJsonFound"
       ELSE pc' = "g_loads" /\ exc' = exc
  /\ UNCHANGED <<result, uploaded, agent, raw, parsed, text_spec, colors, html,
                 pw, poster, ui, presses, genCalls, renderCalls>>

\* lines 229-234: json.loads, or InvalidJson
G_Loads ==
  /\ pc = "g_loads"
  /\ IF Loads(json_text).ok
       THEN parsed' = Loads(json_text).v /\ pc' = "g_theme" /\ exc' = exc
       ELSE parsed' = parsed /\ pc' = "g_raise" /\ exc' = "InvalidJson"
  /\ UNCHANGED <<result, uploaded, agent, raw, json_text, text_spec, colors, html,
                 pw, poster, ui, presses, genCalls, renderCalls>>

\* lines 237-240; parsed.get needs a dict
G_Theme ==
  /\ pc = "g_theme"
  /\ IF parsed.t = "dict"
       THEN parsed' = NormTheme(parsed) /\ pc' = "g_bullets" /\ exc' = exc
       ELSE parsed' = parsed /\ pc' = "g_raise" /\ exc' = "AttributeError"
  /\ UNCHANGED <<result, uploaded, agent, raw, json_text, text_spec, colors, html,
                 pw, poster, ui, presses, genCalls, renderCalls>>

\* lines 242-245
G_Bullets ==
  /\ pc = "g_bullets"
  /\ parsed' = NormBullets(parsed)
  /\ pc' = "g_text_colors"
  /\ UNCHANGED <<result, uploaded, agent, raw, json_text, exc, text_spec, colors,
                 html, pw, poster, ui, presses, genCalls, renderCalls>>

\* lines 247-252; text_colors.get needs a dict
G_TextColors ==
  /\ pc = "g_text_colors"
  /\ IF TextColorsOf(parsed).t = "dict"
       THEN parsed' = NormTextColors(parsed) /\ pc' = "g_return" /\ exc' = exc
       ELSE parsed' = parsed /\ pc' = "g_raise" /\ exc' = "AttributeError"
  /\ UNCHANGED <<result, uploaded, agent, raw, json_text, text_spec, colors, html,
                 pw, poster, ui, presses, genCalls, renderCalls>>

\* line 254 and the assignment of line 467
G_Return ==
  /\ pc = "g_return"
  /\ text_spec' = parsed
  /\ pc' = "g_returned"
  /\ UNCHANGED <<result, uploaded, agent, raw, json_text, parsed, exc, colors, html,
                 pw, poster, ui, presses, genCalls, renderCalls>>

----------------------------------------------------------------------------
(* html_to_png, lines 422-436.  pw tells what is acquired: the Playwright  *)
(* driver of the with block, the browser process, the page.                *)

\* a teardown that ends the driver and leaves what it launched
StopPlaywright_DriverOnly(p) == [p EXCEPT !.driver = FALSE]

\* line 426, leaving the with block: the context manager stops the driver,
\* and the browser and page the driver launched end with it
StopPlaywright(p) == [driver |-> FALSE, browser |-> FALSE, page |-> FALSE]

\* line 435: browser.close() closes the browser and its pages
CloseBrowser(p) == [p EXCEPT !.browser = FALSE, !.page = FALSE]

\* a step of the body of the with block: it succeeds, or it raises and
\* control leaves the with block
RenderStep(at, next, acquired, error) ==
  /\ pc = at
  /\ \/ pw' = acquired /\ pc' = next /\ exc' = exc
     \/ pw' = pw /\ pc' = "r_exit" /\ exc' = error
  /\ UNCHANGED <<result, uploaded, agent, raw, json_text, parsed, text_spec, colors,
                 html, poster, ui, presses, genCalls, renderCalls>>

\* line 518 and line 426, entering the with block
R_Enter ==
  /\ pc = "r_enter"
  /\ renderCalls' = renderCalls + 1
  /\ \/ pw' = [pw EXCEPT !.driver = TRUE] /\ pc' = "r_launch" /\ exc' = exc
     \/ pw' = pw /\ pc' = "r_raise" /\ exc' = "DriverError"
  /\ UNCHANGED <<result, uploaded, agent, raw, json_text, parsed, text_spec, colors,
                 html, poster, ui, presses, genCalls>>

\* line 427
R_Launch ==
  RenderStep("r_launch", "r_new_page", [pw EXCEPT !.browser = TRUE], "LaunchError")

\* lines 428-430
R_NewPage ==
  RenderStep("r_new_page", "r_set_content", [pw EXCEPT !.page = TRUE], "NewPageError")

\* line 431
R_SetContent == RenderStep("r_set_content", "r_wait", pw, "SetContentError")

\* line 433
R_Wait == RenderStep("r_wait", "r_screenshot", pw, "WaitError")

\* line 434
R_Screenshot == RenderStep("r_screenshot", "r_close", pw, "ScreenshotError")

\* line 435
R_Close == RenderStep("r_close", "r_exit", CloseBrowser(pw), "CloseError")

\* line 426, leaving the with block, then line 436 or the exception goes on
R_Exit ==
  /\ pc = "r_exit"
  /\ pw' = StopPlaywright(pw)
  /\ IF exc = "none"
       THEN poster' = TRUE /\ pc' = "h_show"
       ELSE poster' = poster /\ pc' = "r_raise"
  /\ UNCHANGED <<result, uploaded, agent, raw, json_text, parsed, exc, text_spec,
                 colors, html, ui, presses, genCalls, renderCalls>>

----------------------------------------------------------------------------
(* The "Generate Poster" handler, lines 458-529.  Each press of the button *)
(* runs the script again.                                                  *)

Ended == {"idle", "stopped", "crashed", "done"}

\* line 458 (and 447-456: the form values of this run)
H_Press ==
  /\ pc \in Ended
  /\ presses < MaxPresses
  /\ presses' = presses + 1
  /\ uploaded' \in BOOLEAN
  /\ agent' \in Agents
  /\ pc' = "h_photo"
  /\ result' = NoResponse /\ raw' = <<>> /\ json_text' = NoText /\ parsed' = None
  /\ exc' = "none" /\ text_spec' = None /\ colors' = NoColors /\ html' = NoText
  /\ pw' = NoPw /\ poster' = FALSE /\ ui' = NoUi
  /\ genCalls' = 0 /\ renderCalls' = 0

\* the check of the photo without st.stop()
H_Photo_NoStop ==
  /\ pc = "h_photo"
  /\ pc' = "g_call"
  /\ ui' = IF uploaded THEN ui
           ELSE [ui EXCEPT !.error = "Please upload the agent photo."]
  /\ UNCHANGED <<result, uploaded, agent, raw, json_text, parsed, exc, text_spec,
                 colors, html, pw, poster, presses, genCalls, renderCalls>>

\* lines 459-464
H_Photo ==
  /\ pc = "h_photo"
  /\ IF uploaded
       THEN pc' = "g_call" /\ ui' = ui
       ELSE pc' = "stopped" /\ ui' = [ui EXCEPT !.error = "Please upload the agent photo."]
  /\ UNCHANGED <<result, uploaded, agent, raw, json_text, parsed, exc, text_spec,
                 colors, html, pw, poster, presses, genCalls, renderCalls>>

\* an except clause that calls generate_text again
H_CatchGen_Retry ==
  /\ pc = "g_raise"
  /\ ui' = [ui EXCEPT !.error = "Text generation failed"]
  /\ pc' = "g_call"
  /\ UNCHANGED <<result, uploaded, agent, raw, json_text, parsed, exc, text_spec,
                 colors, html, pw, poster, presses, genCalls, renderCalls>>

\* lines 468-470
H_CatchGen ==
  /\ pc = "g_raise"
  /\ ui' = [ui EXCEPT !.error = "Text generation failed"]
  /\ pc' = "stopped"
  /\ UNCHANGED <<result, uploaded, agent, raw, json_text, parsed, exc, text_spec,
                 colors, html, pw, poster, presses, genCalls, renderCalls>>

\* lines 473-476, outside any try
H_Colors ==
  /\ pc = "g_returned"
  /\ LET tc == Get(text_spec, "text_colors", None)
         names == <<Get(tc, "headline", None), Get(tc, "body", None), Get(tc, "cta", None)>>
     IN IF \A i \in 1..3 : Hashable(names[i])
          THEN /\ colors' = [theme |-> theme_colors(Get(text_spec, "color_theme", None)),
                             headline |-> color_from_name(names[1], "#0f172a"),
                             body |-> color_from_name(names[2], "#111827"),
                             cta |-> color_from_name(names[3], "#b91c1c")]
               /\ pc' = "h_fonts" /\ exc' = exc
          ELSE colors' = colors /\ pc' = "crashed" /\ exc' = "TypeError"
  /\ UNCHANGED <<result, uploaded, agent, raw, json_text, parsed, text_spec, html,
                 pw, poster, ui, presses, genCalls, renderCalls>>

\* lines 483-489, outside any try: the font files are there or not
H_Fonts ==
  /\ pc = "h_fonts"
  /\ \/ pc' = "h_fill" /\ exc' = exc
     \/ pc' = "crashed" /\ exc' = "FileNotFoundError"
  /\ UNCHANGED <<result, uploaded, agent, raw, json_text, parsed, text_spec, colors,
                 html, pw, poster, ui, presses, genCalls, renderCalls>>

RequiredKeys == {"headline_ta", "body_paragraph_ta", "cta_line_ta"}

\* lines 492-515, outside any try: text_spec[...] of a missing key raises
H_Fill ==
  /\ pc = "h_fill"
  /\ IF \A k \in RequiredKeys : HasKey(text_spec.o, <<k>>)
       THEN /\ html' = RenderHtml(Get(text_spec, "headline_ta", None),
                                  Get(text_spec, "subheadline_ta", Str(<<>>)),
                                  Get(text_spec, "body_paragraph_ta", None),
                                  Get(text_spec, "bullet_points_ta", None),
                                  Get(text_spec, "cta_line_ta", None), agent)
            /\ pc' = "r_enter" /\ exc' = exc
       ELSE html' = html /\ pc' = "crashed" /\ exc' = "KeyError"
  /\ UNCHANGED <<result, uploaded, agent, raw, json_text, parsed, text_spec, colors,
                 pw, poster, ui, presses, genCalls, renderCalls>>

\* lines 519-521
H_CatchRender ==
  /\ pc = "r_raise"
  /\ ui' = [ui EXCEPT !.error = "HTML to PNG rendering failed"]
  /\ pc' = "stopped"
  /\ UNCHANGED <<result, uploaded, agent, raw, json_text, parsed, exc, text_spec,
                 colors, html, pw, poster, presses, genCalls, renderCalls>>

\* lines 523-529
H_Show ==
  /\ pc = "h_show"
  /\ ui' = [ui EXCEPT !.image = TRUE, !.download = TRUE]
  /\ pc' = "done"
  /\ UNCHANGED <<result, uploaded, agent, raw, json_text, parsed, exc, text_spec,
                 colors, html, pw, poster, presses, genCalls, renderCalls>>

----------------------------------------------------------------------------
(* Specifications.                                                         *)

Idle ==
  /\ uploaded = FALSE /\ agent = NoAgent
  /\ raw = <<>> /\ json_text = NoText /\ parsed = None
  /\ exc = "none" /\ text_spec = None /\ colors = NoColors /\ html = NoText
  /\ pw = NoPw /\ poster = FALSE /\ ui = NoUi
  /\ presses = 0 /\ genCalls = 0 /\ renderCalls = 0

\* the page before the first press
Init == pc = "idle" /\ result = NoResponse /\ Idle

generate_text ==
  \/ G_Extract \/ G_Locate \/ G_Loads \/ G_Theme \/ G_Bullets \/ G_TextColors
  \/ G_Return

html_to_png ==
  \/ R_Enter \/ R_Launch \/ R_NewPage \/ R_SetContent \/ R_Wait \/ R_Screenshot
  \/ R_Close \/ R_Exit

Next ==
  \/ H_Press \/ H_Photo \/ G_Call \/ generate_text \/ H_CatchGen \/ H_Colors
  \/ H_Fonts \/ H_Fill \/ html_to_png \/ H_CatchRender \/ H_Show

Spec == Init /\ [][Next]_vars

\* generate_text alone, on every response of Responses
InitParse == pc = "g_extract" /\ result \in Responses /\ Idle

NextParse == generate_text

SpecParse == InitParse /\ [][NextParse]_vars

----------------------------------------------------------------------------
(* The parser as one function of raw (lines 202-254): [kind, copy].        *)

ParseResponse(t) ==
  IF t = <<>> THEN [kind |-> "EmptyResponse", copy |-> None]
  ELSE IF LocateJson(t) = NoText THEN [kind |-> "NoJsonFound", copy |-> None]
  ELSE IF ~Loads(LocateJson(t)).ok THEN [kind |-> "InvalidJson", copy |-> None]
  ELSE LET d == Loads(LocateJson(t)).v
       IN IF d.t # "dict" \/ TextColorsOf(d).t # "dict"
            THEN [kind |-> "AttributeError", copy |-> None]
            ELSE [kind |-> "ok", copy |-> NormTextColors(NormBullets(NormTheme(d)))]

----------------------------------------------------------------------------
(* Properties.                                                             *)

Range(t) == {t[i] : i \in 1..Len(t)}

GenerationErrors == {"EmptyResponse", "NoJsonFound", "InvalidJson"}

\* generate_text has ended: it returned or it raised
ParseEnded == pc \in {"g_returned", "g_raise"}

\* how generate_text ended
Outcome ==
  [kind |-> IF pc = "g_returned" THEN "ok" ELSE exc,
   copy |-> IF pc = "g_returned" THEN text_spec ELSE None]

Roles == {"headline", "body", "cta"}

\* C1: a returned PosterCopy has one of the 4 themes, a list of at most 3
\* bullets, and a string for each of the three text-colour roles.
C1_ReturnedCopyValid ==
  pc = "g_returned" =>
    /\ Get(text_spec, "color_theme", None) \in {S(th) : th \in Themes}
    /\ Get(text_spec, "bullet_points_ta", None).t = "list"
    /\ Len(Get(text_spec, "bullet_points_ta", None).l) <= 3
    /\ Get(text_spec, "text_colors", None).t = "dict"
    /\ \A r \in Roles : Get(Get(text_spec, "text_colors", None), r, None).t = "str"

\* C2: the parser either returns a PosterCopy or raises one of EmptyResponse,
\* NoJsonFound, InvalidJson; no other failure leaves it.
C2_OnlyGenerationErrors ==
  /\ ParseEnded => (pc = "g_returned") # (exc # "none")
  /\ pc = "g_raise" => exc \in GenerationErrors

Count(t, a, b, c) == Len(SelectSeq(SubSeq(t, a, b), LAMBDA x : x = c))

FirstOpen(t) == Min({i \in 1..Len(t) : t[i] = "{"})

\* the places where the braces from the first "{" on are balanced
Balances(t) ==
  {i \in FirstOpen(t)..Len(t) :
     Count(t, FirstOpen(t), i, "{") = Count(t, FirstOpen(t), i, "}")}

\* C3 as stated: an empty text fails with EmptyResponse, a text without a brace
\* with NoJsonFound, and a text with an opening brace that does not yield a
\* result fails with InvalidJson, never with NoJsonFound.
C3_AsStated ==
  ParseEnded =>
    /\ raw = <<>> => Outcome.kind = "EmptyResponse"
    /\ (raw # <<>> /\ "{" \notin Range(raw)) => Outcome.kind = "NoJsonFound"
    /\ "{" \in Range(raw) => Outcome.kind # "NoJsonFound"

\* C3 amended: an empty text fails with EmptyResponse; a text without a brace
\* fails with NoJsonFound; a text without a fence whose first "{" is never
\* balanced fails with NoJsonFound too; a text without a fence whose first "{"
\* is balanced, the text up to the first balance being no valid JSON, fails
\* with InvalidJson.
C3_Stages ==
  ParseEnded =>
    /\ raw = <<>> => Outcome.kind = "EmptyResponse"
    /\ (raw # <<>> /\ "{" \notin Range(raw)) => Outcome.kind = "NoJsonFound"
    /\ ("{" \in Range(raw) /\ FENCE \notin Range(raw) /\ Balances(raw) = {})
         => Outcome.kind = "NoJsonFound"
    /\ ("{" \in Range(raw) /\ FENCE \notin Range(raw) /\ Balances(raw) # {}
          /\ ~Loads(SubSeq(raw, FirstOpen(raw), Min(Balances(raw)))).ok)
         => Outcome.kind = "InvalidJson"

C3_Witness ==
  /\ pc = "g_raise" /\ raw = <<"{", "invalid">> /\ exc = "NoJsonFound"

\* raw is a fenced block around the text of a JSON object
IsFenced(t) ==
  /\ Len(t) >= 7
  /\ t[1] = FENCE /\ t[2] = "json" /\ t[3] = NL
  /\ t[Len(t) - 1] = NL /\ t[Len(t)] = FENCE

Inner(t) == SubSeq(t, 4, Len(t) - 2)

\* C4: when the response carrying a JSON object in a fenced block yields a
\* PosterCopy, the response carrying the same object unfenced yields the
\* identical PosterCopy.
C4_FencedEqualsUnfenced ==
  (/\ pc = "g_returned" /\ IsFenced(raw)
   /\ FENCE \notin Range(Inner(raw))
   /\ Loads(Inner(raw)).ok /\ Loads(Inner(raw)).v.t = "dict")
    => ParseResponse(Inner(raw)) = [kind |-> "ok", copy |-> text_spec]

\* C8: for a parsed bullet list of n elements the normalized list is its
\* first min(n, 3) elements in their order.
C8_BulletsPrefix ==
  pc = "g_returned" =>
    LET orig == Get(Loads(json_text).v, "bullet_points_ta", None)
        got == Get(text_spec, "bullet_points_ta", None)
    IN orig.t = "list" =>
         /\ got.t = "list"
         /\ Len(got.l) = (IF Len(orig.l) < 3 THEN Len(orig.l) ELSE 3)
         /\ \A i \in 1..Len(got.l) : got.l[i] = orig.l[i]

C8_Witness ==
  /\ pc = "g_returned"
  /\ Get(Loads(json_text).v, "bullet_points_ta", None) = Bullets(5)
  /\ Get(text_spec, "bullet_points_ta", None) = Bullets(3)

\* C5: every failure of a Generate action ends in an error message on the
\* page; none leaves the handler uncaught.
C5_FailuresSurfaced ==
  (pc \in Ended /\ exc # "none") => (pc = "stopped" /\ ui.error # "none")

InRender ==
  pc \in {"r_launch", "r_new_page", "r_set_content", "r_wait", "r_screenshot",
          "r_close", "r_exit"}

C7_NoRetry ==
  /\ [](genCalls <= 1 /\ renderCalls <= 1)
  /\ [][exc # "none" =>
          \/ genCalls' = genCalls /\ renderCalls' = renderCalls
          \/ presses' = presses + 1]_vars

C7_Witness ==
  pc = "stopped" /\ exc = "SetContentError" /\ genCalls = 1 /\ renderCalls = 1

\* C9: no markup character of a value of the service or of the operator
\* reaches the document unescaped.
C9_ValuesEscaped ==
  html # NoText => \A i \in 1..Len(html) : html[i] \notin Markup

GenFailed == exc \in GenerationErrors \cup {"APIError", "AttributeError"}

\* C10: the service is called only with a photo, the render only after
\* generate_text returned a copy, the image is shown only after html_to_png
\* returned; without photo or copy there is no render and no image.
C10_StagesInOrder ==
  /\ genCalls > 0 => uploaded
  /\ renderCalls > 0 => (text_spec # None /\ genCalls = 1 /\ ~GenFailed)
  /\ poster => renderCalls = 1
  /\ (ui.image \/ ui.download) => poster
  /\ (~uploaded \/ GenFailed) => (renderCalls = 0 /\ ~poster /\ ~ui.image /\ ~ui.download)

C10_Witness ==
  pc = "done" /\ ui.image /\ ui.download /\ poster /\ genCalls = 1 /\ renderCalls = 1

====
